---- MODULE Spec2Model ----
(***************************************************************************)
(* msauth-browser: interactive OAuth 2.0 authorization-code + PKCE login   *)
(* (PlaywrightAuth.get_tokens), the token holder (TokenManager) and its    *)
(* background refresher thread, and the command-line entry point.          *)
(*                                                                         *)
(* Strings of the program are modelled by strings, Python's None by the    *)
(* string "None".  A URL query is a sequence of <<key, value>> pairs.      *)
(* A token is a record: kind "tok" for a non-empty string, "empty" for "", *)
(* "none" for None; gen is the number of the token set it belongs to       *)
(* (0: the set returned by the code exchange, n: the n-th set issued by a  *)
(* refresh); exp is the exp claim of a JWT payload; nparts the number of   *)
(* dot-separated parts of the string.                                      *)
(***************************************************************************)
EXTENDS Integers, Sequences, FiniteSets, TLC

\* ---------------------------------------------------------------- bounds
MaxStarts == 2          \* calls of start_auto_refresh that are explored
MaxRequests == 2        \* refresh requests the token endpoint answers
MaxTime == 900          \* the clock stops advancing here
ClockStep == 300        \* seconds by which one clock step advances
LifeShort == 300        \* lifetime of a short-lived access token
LifeLong == 900         \* lifetime of a long-lived access token
MaxScopes == 3          \* longest configured scope list

\* ------------------------------------------------------ program constants
RefreshMargin == 300    \* tokens.py:124  expires_in() - 300

None == "None"

Threads == 1..MaxStarts

States == {"s1", "s2"}          \* values secrets.token_urlsafe may return

\* (code_verifier, code_challenge) pairs pkce.generate_pkce_pair may return.
PkcePairs == {<<"v1", "h1">>, <<"v2", "h2">>}

\* auth.py:58-59: the random values of one get_tokens call, drawn together.
Draws == {[pair |-> <<"v1", "h1">>, state |-> "s1"],
          [pair |-> <<"v2", "h2">>, state |-> "s2"]}

\* auth.py:30-31: client id and redirect URI of the configuration.
ClientId == "client"
RedirectUri == "https://redirect"

Lifetimes == {LifeShort, LifeLong}

\* -------------------------------------------------------------- variables
VARIABLES
    mpc,            \* position of the foreground (cli.main)
    log,            \* last message handed to the logger
    exit_code,      \* exit code of the process, -1 while it runs
    gpc,            \* position inside PlaywrightAuth.get_tokens
    scopes,         \* self.scopes, a list of scope names
    scope_string,   \* the scope string, a string is a sequence of atoms
    code_verifier,  \* the verifier of the PKCE pair of this call
    params,         \* parameters of the authorization request
    state,          \* the state value sent in the authorization request
    navigations,    \* number of page.goto calls
    playwright,     \* "off" | "running" | "stopped"  (with sync_playwright())
    browser,        \* "none" | "open" | "closed"
    context,        \* "none" | "open" | "closed"
    wait_outcome,   \* how page.wait_for_url ended, "pending" before
    final_query,    \* query of page.url after the redirect
    code,           \* authorization code extracted from final_query
    exchanges,      \* sequence of code-exchange requests sent
    response,       \* status and body of the answer to the code exchange
    result,         \* what get_tokens returned: "pending" | "None" | "dict" | "raised"
    response_dict,  \* the returned dictionary
    _access_token, _refresh_token, _expires_on,   \* the token holder
    holder,         \* TRUE once the token holder is constructed
    snapshot,       \* content of the file .roadtools_auth
    now,            \* the clock
    tpc,            \* position of each refresher thread
    wake,           \* time at which a sleeping refresher wakes
    new_tokens,     \* response.json() held by each refresher
    nreq,           \* number of refresh requests posted
    refresh_outcome,\* how the last refresh request ended, "none" before
    gen,            \* number of token sets issued by refreshes
    starts          \* number of start_auto_refresh calls

avars == <<scopes, scope_string, code_verifier, params>>
gvars == <<gpc, avars, state, navigations, playwright, browser, context,
           wait_outcome, final_query, code, exchanges, response, result,
           response_dict>>
hvars == <<_access_token, _refresh_token, _expires_on, holder>>
tvars == <<tpc, wake, new_tokens, nreq, refresh_outcome, gen, starts>>
vars == <<mpc, exit_code, log, gvars, hvars, snapshot, tvars, now>>

\* ------------------------------------------------------------ token values
\* None standing where a token of token set g was expected.
Absent(g) == [kind |-> "none", gen |-> g, exp |-> 0, nparts |-> 0]
NoToken == Absent(0)
EmptyToken == [kind |-> "empty", gen |-> 0, exp |-> 0, nparts |-> 1]
Jwt(g, e) == [kind |-> "tok", gen |-> g, exp |-> e, nparts |-> 3]
Opaque(g) == [kind |-> "tok", gen |-> g, exp |-> 0, nparts |-> 1]
\* A non-empty string of n dot-separated parts that carries an exp claim e in
\* its second part.
Parts(n, e) == [kind |-> "tok", gen |-> 0, exp |-> e, nparts |-> n]

\* The local new_tokens of a refresher that is not applying a response.
NoBody == [access_token |-> NoToken, refresh_token |-> NoToken]

\* The snapshot file while nothing has been written.
NoFile == [written |-> FALSE, accessToken |-> NoToken, refreshToken |-> NoToken,
           expiresIn |-> 0]

\* Python truthiness of a str-or-None value.
Truthy(tok) == tok.kind = "tok"

\* ------------------------------------------------------------- get_tokens
\* The redirect URLs the browser can end on: the query of page.url.
FinalQueries ==
    {<<<<"code", c>>, <<"state", s>>>> : c \in {"c1", ""}, s \in States}
    \cup {<<<<"error", "access_denied">>, <<"state", s>>>> : s \in States}
    \cup {<< >>}

\* parse_qs(query).get(key, [None])[0]: blank values are dropped by parse_qs,
\* the first remaining value of the key is taken.
QueryGet(query, key) ==
    LET vals == SelectSeq(query, LAMBDA p : p[1] = key /\ p[2] # "")
    IN  IF Len(vals) = 0 THEN None ELSE vals[1][2]

\* A check that only recognises the empty string and lets None through.
CodeMissingEmptyOnly(c) == c = ""

\* auth.py:129  `if not code`
CodeMissing(c) == c = None \/ c = ""

\* A handler that answers a timeout by navigating again.
AfterWaitRetries(outcome) ==
    CASE outcome = "redirected" -> "parse"
      [] outcome = "timeout" -> "launched"
      [] outcome = "error" -> "returned"

\* auth.py:107-125: where get_tokens goes after page.wait_for_url.  Playwright's
\* TimeoutError is not the builtin TimeoutError, so a timeout is caught by the
\* generic handler; both handlers return None.
AfterWait(outcome) ==
    CASE outcome = "redirected" -> "parse"
      [] outcome = "timeout" -> "returned"
      [] outcome = "error" -> "returned"

WaitLog(outcome) ==
    CASE outcome = "redirected" -> "Redirection received."
      [] outcome = "timeout" -> "Error during auth redirect"
      [] outcome = "error" -> "Error during auth redirect"

\* ------------------------------------------------------------ scope string
\* A string is a sequence of atoms; the atom " " is a space and the atom
\* "openid" the text openid, no other atom shares a character with it.  A
\* scope name is a string without space.
Openid == <<"openid">>
ScopeNames == {Openid, <<"graph.default">>, <<"offline_access">>,
               <<"api://", "openid", ".read">>}

\* auth.py:32-36: the scopes used when the configuration has none.
DefaultScopes == <<Openid, <<"graph.default">>, <<"offline_access">>>>

\* The configured scope lists: lists of distinct scope names.
ScopeLists ==
    {l \in UNION {[1..n -> ScopeNames] : n \in 0..MaxScopes} :
        \A i, j \in DOMAIN l : i # j => l[i] # l[j]}

\* auth.py:32  config.default_scopes or [...]
EffectiveScopes(cfg) == IF cfg = << >> THEN DefaultScopes ELSE cfg

\* " ".join(list)
RECURSIVE Join(_)
Join(l) ==
    IF Len(l) = 0 THEN << >>
    ELSE IF Len(l) = 1 THEN l[1]
    ELSE l[1] \o <<" ">> \o Join(Tail(l))

\* str.split(" ")
RECURSIVE Split(_)
Split(str) ==
    IF \E i \in DOMAIN str : str[i] = " "
      THEN LET k == CHOOSE i \in DOMAIN str :
                        str[i] = " " /\ \A j \in 1..(i - 1) : str[j] # " "
           IN  <<SubSeq(str, 1, k - 1)>> \o Split(SubSeq(str, k + 1, Len(str)))
      ELSE <<str>>

\* auth.py:63  `"openid" not in scope_string`: a substring test on the joined
\* string.
OpenidIn(str) == \E i \in DOMAIN str : str[i] = "openid"

\* auth.py:61-64
ScopeString(l) ==
    IF OpenidIn(Join(l)) THEN Join(l) ELSE <<"openid", " ">> \o Join(l)

\* auth.py:53-76: PKCE pair, state and authorization URL.
GetTokensBegin ==
    /\ mpc = "get_tokens" /\ gpc = "idle"
    /\ UNCHANGED snapshot
    /\ \E d \in Draws :
        /\ state' = d.state
        /\ code_verifier' = d.pair[1]
        /\ params' = [client_id |-> ClientId, scope |-> ScopeString(scopes),
                      redirect_uri |-> RedirectUri,
                      code_challenge |-> d.pair[2], state |-> d.state]
    /\ scope_string' = ScopeString(scopes)
    /\ gpc' = "prepared"
    /\ log' = "Starting authentication process using Playwright"
    /\ UNCHANGED <<scopes, response>>
    /\ UNCHANGED <<mpc, exit_code, navigations, playwright, browser, context,
                   wait_outcome, final_query, code, exchanges, result,
                   response_dict, hvars, tvars, now>>

\* auth.py:80-82: sync_playwright() is entered, the browser launched and the
\* browsing context created.
Launch ==
    /\ gpc = "prepared"
    /\ UNCHANGED snapshot
    /\ playwright' = "running" /\ browser' = "open" /\ context' = "open"
    /\ gpc' = "launched"
    /\ UNCHANGED <<avars, response>>
    /\ UNCHANGED <<mpc, exit_code, log, state, navigations, wait_outcome,
                   final_query, code, exchanges, result, response_dict,
                   hvars, tvars, now>>

\* auth.py:84-102: cookie injection, new page, page.goto, wait_for_load_state.
\* These calls are outside the try statement: an error leaves the with block
\* (which stops Playwright) and get_tokens raises.
Goto ==
    /\ gpc = "launched"
    /\ UNCHANGED snapshot
    /\ navigations' = navigations + 1
    /\ \/ /\ gpc' = "waiting"
          /\ log' = "Waiting for authentication to complete"
          /\ UNCHANGED <<playwright, result>>
       \/ /\ gpc' = "raised"
          /\ playwright' = "stopped"
          /\ result' = "raised"
          /\ UNCHANGED log
    /\ UNCHANGED <<avars, response>>
    /\ UNCHANGED <<mpc, exit_code, state, browser, context, wait_outcome,
                   final_query, code, exchanges, response_dict, hvars, tvars, now>>

\* auth.py:107-125: page.wait_for_url with its handlers; the finally clause
\* closes the context and the browser on every outcome.
WaitForUrl ==
    /\ gpc = "waiting"
    /\ UNCHANGED snapshot
    /\ \E outcome \in {"redirected", "timeout", "error"} :
        /\ wait_outcome' = outcome
        /\ gpc' = AfterWait(outcome)
        /\ IF outcome = "redirected"
             THEN \E q \in FinalQueries : final_query' = q
             ELSE UNCHANGED final_query
        /\ result' = IF AfterWait(outcome) = "returned" THEN None ELSE result
        /\ log' = IF AfterWait(outcome) = "returned" THEN WaitLog(outcome)
                   ELSE "Browser closed."
    /\ context' = "closed" /\ browser' = "closed"
    /\ playwright' = "stopped"
    /\ UNCHANGED <<avars, response>>
    /\ UNCHANGED <<mpc, exit_code, state, navigations, code, exchanges,
                   response_dict, hvars, tvars, now>>

\* auth.py:127-134: the authorization code is taken from the final URL.
ParseCode ==
    /\ gpc = "parse"
    /\ UNCHANGED snapshot
    /\ code' = QueryGet(final_query, "code")
    /\ IF CodeMissing(QueryGet(final_query, "code"))
         THEN /\ gpc' = "returned" /\ result' = None
              /\ log' = "Authorization code not found in redirect URL."
         ELSE /\ gpc' = "exchange" /\ UNCHANGED result
              /\ log' = "Exchanging authorization code for tokens"
    /\ UNCHANGED <<avars, response>>
    /\ UNCHANGED <<mpc, exit_code, state, navigations, playwright, browser,
                   context, wait_outcome, final_query, exchanges, response_dict,
                   hvars, tvars, now>>

\* The bodies the token endpoint can answer a code exchange with.
ExchangeBodies ==
    {[access_token |-> Jwt(0, now + l), refresh_token |-> r, expires_in |-> l] :
        l \in Lifetimes, r \in {Opaque(0), NoToken}}
    \cup {[access_token |-> a, refresh_token |-> Opaque(0),
           expires_in |-> LifeLong] :
            a \in {Parts(n, now + LifeLong) : n \in {1, 2, 4}}
                  \cup {EmptyToken, NoToken}}

\* Status codes of the token endpoint.
Statuses == {200, 400}

\* The answer of get_tokens while no exchange has been answered.
NoResponse == [status |-> 0,
               body |-> [access_token |-> NoToken, refresh_token |-> NoToken,
                         expires_in |-> 0]]

\* response_dict as get_tokens creates it, auth.py:53-57.
EmptyDict == [access_token |-> NoToken, refresh_token |-> NoToken,
              expires_in |-> 0]

\* A check that takes every answer for a success.
ExchangeSucceededAlways(status) == TRUE

\* auth.py:153  `if response.status_code != 200`
ExchangeSucceeded(status) == status = 200

\* A request that sends the challenge in place of the verifier.
ExchangeDataChallenge ==
    [client_id |-> ClientId, redirect_uri |-> RedirectUri,
     scope |-> scope_string, code |-> code,
     code_verifier |-> params.code_challenge]

\* auth.py:141-149: the form data of the code exchange.
ExchangeData ==
    [client_id |-> ClientId, redirect_uri |-> RedirectUri,
     scope |-> scope_string, code |-> code, code_verifier |-> code_verifier]

\* auth.py:138-164: the code-for-token exchange.
Exchange ==
    /\ gpc = "exchange"
    /\ UNCHANGED snapshot
    /\ exchanges' = Append(exchanges, ExchangeData)
    /\ \E status \in Statuses, body \in ExchangeBodies :
        /\ response' = [status |-> status, body |-> body]
        /\ IF ExchangeSucceeded(status)
             THEN /\ result' = "dict"
                  /\ response_dict' = body
                  /\ log' = "Token exchange successful"
             ELSE /\ result' = None
                  /\ log' = "Token exchange failed"
                  /\ UNCHANGED response_dict
    /\ gpc' = "returned"
    /\ UNCHANGED avars
    /\ UNCHANGED <<mpc, exit_code, state, navigations, playwright, browser,
                   context, wait_outcome, final_query, code, hvars, tvars, now>>

\* ------------------------------------------------------------ token holder
\* A decoder that only asks for a payload part.
parse_jwt_lenient(tok) ==
    IF tok.kind = "none" THEN "AttributeError"
    ELSE IF tok.nparts < 2 THEN "Invalid JWT format"
    ELSE "ok"

\* tokens.py:14-27 parse_jwt: "ok", or the error it raises.  The token must
\* split into exactly three parts; None has no split method.
parse_jwt(tok) ==
    IF tok.kind = "none" THEN "AttributeError"
    ELSE IF tok.nparts # 3 THEN "Invalid JWT format"
    ELSE "ok"

parse_jwt_ok(tok) == parse_jwt(tok) = "ok"

\* cli.py:130  tokens.get("refresh_token") or ""
OrEmpty(tok) == IF Truthy(tok) THEN tok ELSE EmptyToken

\* tokens.py:89-90 expires_in
Max(a, b) == IF a >= b THEN a ELSE b

\* expires_in without the clamp at 0.
expires_in_unclamped == _expires_on - now

expires_in == Max(0, _expires_on - now)

\* An entry point that returns 0 whatever get_tokens returned.
ReturnCodeZero(res) == 0

\* cli.py:109-110 and 156, console.py:98-99 and 132: `if not tokens: return 1`,
\* `return 0` at the end.
ReturnCode(res) == IF res = None THEN 1 ELSE 0

\* console.py:72-74: without a configuration name the help is printed.
NoConfig ==
    /\ mpc = "get_tokens" /\ gpc = "idle"
    /\ UNCHANGED snapshot
    /\ mpc' = "exited" /\ exit_code' = 1
    /\ log' = "usage"
    /\ UNCHANGED <<gvars, hvars, tvars, now>>

\* console.py:85-89: --show-scopes prints the configured scopes and returns 0;
\* no login is attempted.
ShowScopes ==
    /\ mpc = "get_tokens" /\ gpc = "idle"
    /\ UNCHANGED snapshot
    /\ mpc' = "exited" /\ exit_code' = 0
    /\ log' = "Scopes for the selected configuration:"
    /\ UNCHANGED <<gvars, hvars, tvars, now>>

\* cli.py:103-134 with tokens.py:31-57: main receives the result of get_tokens
\* and constructs the token holder; an error raised by get_tokens or by the
\* constructor is not handled and ends the process.
MainAfterGetTokens ==
    /\ mpc = "get_tokens" /\ gpc \in {"returned", "raised"}
    /\ UNCHANGED snapshot
    /\ CASE result = "raised" ->
              /\ mpc' = "crashed" /\ exit_code' = 1
              /\ UNCHANGED hvars
         [] result = None ->
              /\ mpc' = "exited" /\ exit_code' = ReturnCode(result)
              /\ UNCHANGED hvars
         [] result = "dict" ->
              IF parse_jwt_ok(response_dict.access_token)
                THEN /\ _access_token' = response_dict.access_token
                     /\ _refresh_token' = OrEmpty(response_dict.refresh_token)
                     /\ _expires_on' = response_dict.access_token.exp
                     /\ holder' = TRUE
                     /\ mpc' = "holder"
                     /\ UNCHANGED exit_code
                ELSE /\ mpc' = "crashed" /\ exit_code' = 1
                     /\ UNCHANGED hvars
    /\ log' = CASE result = "raised" -> log
                [] result = None -> log
                [] result = "dict" ->
                     IF parse_jwt_ok(response_dict.access_token)
                       THEN "Token audience"
                       ELSE parse_jwt(response_dict.access_token)
    /\ UNCHANGED <<gvars, tvars, now>>

\* cli.py:140-147, console.py:111-126: with --save roadtools the snapshot is
\* written once, before the refresher is started.
Save ==
    /\ mpc = "holder" /\ starts = 0 /\ snapshot = NoFile
    /\ snapshot' = [written |-> TRUE, accessToken |-> _access_token,
                    refreshToken |-> _refresh_token,
                    expiresIn |-> response_dict.expires_in]
    /\ log' = "Tokens saved to .roadtools_auth"
    /\ UNCHANGED <<mpc, exit_code, gvars, hvars, tvars, now>>

\* tokens.py:120-139 start_auto_refresh: a new daemon thread is created and
\* started on every call; no handle is kept and nothing is checked.
start_auto_refresh ==
    /\ mpc = "holder"
    /\ UNCHANGED snapshot
    /\ starts < MaxStarts
    /\ starts' = starts + 1
    /\ tpc' = [tpc EXCEPT ![starts + 1] = "loop"]
    /\ log' = "Auto token refresher thread started."
    /\ UNCHANGED <<mpc, exit_code, gvars, hvars, wake, new_tokens, nreq,
                   refresh_outcome, gen, now>>

\* cli.py:149-152: with --refresh main sleeps, without it main returns 0.
MainSleep ==
    /\ mpc = "holder"
    /\ UNCHANGED snapshot
    /\ IF starts > 0
         THEN mpc' = "sleeping" /\ UNCHANGED exit_code
         ELSE mpc' = "exited" /\ exit_code' = ReturnCode(result)
    /\ UNCHANGED <<log, gvars, hvars, tvars, now>>

\* cli.py:153-154: the user interrupts the sleep.
Interrupt ==
    /\ mpc = "sleeping"
    /\ UNCHANGED snapshot
    /\ mpc' = "interrupted"
    /\ log' = "Exiting on user interrupt"
    /\ UNCHANGED <<exit_code, gvars, hvars, tvars, now>>

\* cli.py:156: main returns 0 and the process ends; the daemon threads end
\* with it.
Exit ==
    /\ mpc = "interrupted"
    /\ UNCHANGED snapshot
    /\ mpc' = "exited" /\ exit_code' = ReturnCode(result)
    /\ tpc' = [t \in Threads |-> IF tpc[t] \in {"unborn", "stopped"} THEN tpc[t]
                                 ELSE "killed"]
    /\ wake' = [t \in Threads |-> 0]
    /\ new_tokens' = [t \in Threads |-> NoBody]
    /\ UNCHANGED <<log, gvars, hvars, nreq, refresh_outcome, gen, starts, now>>

\* The clock.  Time before the code exchange plays no role: expiry times are
\* relative to the time of the exchange.
Tick ==
    /\ mpc \in {"holder", "sleeping", "interrupted"}
    /\ UNCHANGED snapshot
    /\ now + ClockStep <= MaxTime
    /\ now' = now + ClockStep
    /\ UNCHANGED <<mpc, exit_code, log, gvars, hvars, tvars>>

\* --------------------------------------------------------------- refresher
Running(t) == tpc[t] \in {"loop", "sleeping", "refresh", "write_at", "write_rt"}

\* A check that only recognises None and lets the empty string through.
MissingRefreshTokenNoneOnly(rt) == rt.kind = "none"

\* tokens.py:93  `if not refresh_token`: no request is made
MissingRefreshToken(rt) == ~Truthy(rt)

\* A refresher that goes on to apply the answer after a non-200 status.
AfterFailureApplies(kind) ==
    CASE kind = "status" -> "write_at"
      [] kind = "exception" -> "stopped"

\* A refresher that leaves its loop on every failure.
AfterFailureBreaks(kind) ==
    CASE kind = "status" -> "stopped"
      [] kind = "exception" -> "stopped"

\* tokens.py:109-111 and 133-135: where the refresher goes after a failed
\* attempt: a non-200 answer returns to the loop, an exception leaves it.
AfterFailure(kind) ==
    CASE kind = "status" -> "loop"
      [] kind = "exception" -> "stopped"

\* The bodies the token endpoint can answer a refresh with, as token set g.
RefreshBodies(g) ==
    {[access_token |-> a, refresh_token |-> r] :
        a \in {Jwt(g, now + l) : l \in Lifetimes} \cup {Absent(g)},
        r \in {Opaque(g), Absent(g)}}

\* tokens.py:122-130: top of the loop.
RefresherLoop(t) ==
    /\ tpc[t] = "loop"
    /\ UNCHANGED snapshot
    /\ LET sleep_duration == expires_in - RefreshMargin
       IN  IF sleep_duration > 0
             THEN /\ tpc' = [tpc EXCEPT ![t] = "sleeping"]
                  /\ wake' = [wake EXCEPT ![t] = now + sleep_duration]
                  /\ log' = "Sleeping until refresh."
             ELSE /\ tpc' = [tpc EXCEPT ![t] = "refresh"]
                  /\ log' = "Time to refresh token."
                  /\ UNCHANGED wake
    /\ UNCHANGED <<mpc, exit_code, gvars, hvars, new_tokens, nreq,
                   refresh_outcome, gen, starts, now>>

\* tokens.py:128-130: time.sleep returns.
RefresherWake(t) ==
    /\ tpc[t] = "sleeping"
    /\ UNCHANGED snapshot
    /\ now >= wake[t]
    /\ tpc' = [tpc EXCEPT ![t] = "refresh"]
    /\ wake' = [wake EXCEPT ![t] = 0]
    /\ log' = "Time to refresh token."
    /\ UNCHANGED <<mpc, exit_code, gvars, hvars, new_tokens, nreq,
                   refresh_outcome, gen, starts, now>>

\* tokens.py:131-135 with 92-113: refresh_access_token(self._refresh_token) up
\* to the answer of the token endpoint.
RefresherCall(t) ==
    /\ tpc[t] = "refresh"
    /\ UNCHANGED snapshot
    /\ IF MissingRefreshToken(_refresh_token)
         THEN /\ tpc' = [tpc EXCEPT ![t] = "loop"]
              /\ log' = "No refresh token available"
              /\ UNCHANGED <<nreq, refresh_outcome, gen, new_tokens>>
         ELSE /\ nreq < MaxRequests
              /\ nreq' = nreq + 1
              /\ \/ \E kind \in {"status", "exception"} :
                      /\ refresh_outcome' = kind
                      /\ tpc' = [tpc EXCEPT ![t] = AfterFailure(kind)]
                      /\ log' = "Failed to refresh token"
                      /\ UNCHANGED <<gen, new_tokens>>
                 \/ \E body \in RefreshBodies(gen + 1) :
                      /\ refresh_outcome' = "ok"
                      /\ gen' = gen + 1
                      /\ new_tokens' = [new_tokens EXCEPT ![t] = body]
                      /\ tpc' = [tpc EXCEPT ![t] = "write_at"]
                      /\ UNCHANGED log
    /\ UNCHANGED <<mpc, exit_code, gvars, hvars, wake, starts, now>>

\* tokens.py:115
WriteAccess(t) ==
    /\ tpc[t] = "write_at"
    /\ UNCHANGED snapshot
    /\ _access_token' = new_tokens[t].access_token
    /\ tpc' = [tpc EXCEPT ![t] = "write_rt"]
    /\ UNCHANGED <<mpc, exit_code, log, gvars, _refresh_token, _expires_on,
                   holder, wake, new_tokens, nreq, refresh_outcome, gen, starts,
                   now>>

\* tokens.py:116-118
WriteRefresh(t) ==
    /\ tpc[t] = "write_rt"
    /\ UNCHANGED snapshot
    /\ _refresh_token' = new_tokens[t].refresh_token
    /\ tpc' = [tpc EXCEPT ![t] = "loop"]
    /\ new_tokens' = [new_tokens EXCEPT ![t] = NoBody]
    /\ log' = "Access token refreshed successfully."
    /\ UNCHANGED <<mpc, exit_code, gvars, _access_token, _expires_on, holder,
                   wake, nreq, refresh_outcome, gen, starts, now>>

\* --------------------------------------------------------------- accessors
\* tokens.py:69-75 and 81-83: what a foreground caller of the accessors reads.
\* The accessors take no lock, so a caller can read at any point between two
\* steps of a refresher.
access_token == _access_token
refresh_token == _refresh_token
expiration_datetime == _expires_on

\* ----------------------------------------------------------- specification
\* The state at the start of the entry point, for a configuration whose
\* scope list is one of cfgs.
Boot(cfgs) ==
    /\ mpc = "get_tokens" /\ exit_code = -1
    /\ gpc = "idle" /\ state = None /\ navigations = 0
    /\ playwright = "off" /\ browser = "none" /\ context = "none"
    /\ wait_outcome = "pending"
    /\ final_query = << >> /\ code = None /\ exchanges = << >>
    /\ scopes \in {EffectiveScopes(cfg) : cfg \in cfgs} /\ scope_string = << >>
    /\ code_verifier = None
    /\ params = [client_id |-> None, scope |-> << >>, redirect_uri |-> None,
                 code_challenge |-> None, state |-> None]
    /\ response = NoResponse
    /\ result = "pending"
    /\ response_dict = EmptyDict
    /\ log = ""
    /\ _access_token = NoToken /\ _refresh_token = NoToken /\ _expires_on = 0
    /\ holder = FALSE
    /\ snapshot = NoFile
    /\ now = 0
    /\ tpc = [t \in Threads |-> "unborn"]
    /\ wake = [t \in Threads |-> 0]
    /\ new_tokens = [t \in Threads |-> NoBody]
    /\ nreq = 0 /\ refresh_outcome = "none" /\ gen = 0 /\ starts = 0

Init == Boot({DefaultScopes})

Next ==
    \/ GetTokensBegin
    \/ Launch
    \/ Goto
    \/ WaitForUrl
    \/ ParseCode
    \/ Exchange
    \/ NoConfig
    \/ ShowScopes
    \/ MainAfterGetTokens
    \/ Save
    \/ start_auto_refresh
    \/ MainSleep
    \/ Interrupt
    \/ Exit
    \/ Tick
    \/ \E t \in Threads : RefresherLoop(t)
    \/ \E t \in Threads : RefresherWake(t)
    \/ \E t \in Threads : RefresherCall(t)
    \/ \E t \in Threads : WriteAccess(t)
    \/ \E t \in Threads : WriteRefresh(t)

Spec == Init /\ [][Next]_vars

\* get_tokens alone, for every configured scope list.
InitAuth == Boot(ScopeLists)

NextAuth ==
    \/ GetTokensBegin
    \/ Launch
    \/ Goto
    \/ WaitForUrl
    \/ ParseCode
    \/ Exchange

SpecAuth == InitAuth /\ [][NextAuth]_vars

\* ------------------------------------------------------------------ claims
RunningThreads == {t \in Threads : Running(t)}

\* C1: for one token holder, whatever the number of start_auto_refresh calls,
\* at most one background refresher is running at any time.
C1_AtMostOneRefresher == Cardinality(RunningThreads) <= 1

\* C2: while a refresher is applying a successful refresh, the token fields a
\* reader gets from the accessors never mix the old and the new token set.
C2_NoTornRead ==
    (\E t \in Threads : tpc[t] \in {"write_at", "write_rt"})
        => access_token.gen = refresh_token.gen

\* C3: once the stop is requested (the user interrupt is received), no further
\* refresh request is issued by a refresher.
C3_NoRequestAfterStop == [][mpc = "interrupted" => nreq' = nreq]_vars

\* C4: when a refresher completes applying a successful refresh that carries
\* an access token, the holder's access token, refresh token and expires_on
\* are those of the new token set.
C4_RefreshReplacesAll ==
    [][\A t \in Threads :
         (tpc[t] = "write_rt" /\ tpc'[t] = "loop"
            /\ Truthy(new_tokens[t].access_token))
         => /\ _access_token' = new_tokens[t].access_token
            /\ _refresh_token' = new_tokens[t].refresh_token
            /\ _expires_on' = new_tokens[t].access_token.exp]_vars

\* A step in which refresher t posts a refresh request that fails.
FailedAttempt(t) ==
    /\ tpc[t] = "refresh" /\ tpc'[t] # "refresh" /\ nreq' = nreq + 1
    /\ refresh_outcome' \in {"status", "exception"}

\* C5 (as stated): whenever a background refresh attempt fails, by a non-200
\* answer or by a raised error, the failure is logged, the refresher stays in
\* its loop and the foreground is not terminated.
C5_FailureKeepsLoopAlive ==
    [][\A t \in Threads :
         FailedAttempt(t)
         => /\ log' = "Failed to refresh token"
            /\ tpc'[t] = "loop"
            /\ mpc' = mpc /\ exit_code' = exit_code]_vars

\* C5 (amended): a failed attempt is logged and never terminates the
\* foreground; after a non-200 answer the refresher is back at the top of its
\* loop, after a raised error it has left the loop for good.
C5_FailurePolicy ==
    [][\A t \in Threads :
         FailedAttempt(t)
         => /\ log' = "Failed to refresh token"
            /\ mpc' = mpc /\ exit_code' = exit_code
            /\ refresh_outcome' = "status" => tpc'[t] = "loop"
            /\ refresh_outcome' = "exception" => tpc'[t] = "stopped"]_vars

C5_Witness ==
    /\ mpc = "sleeping" /\ refresh_outcome = "status" /\ nreq = 2
    /\ \E t1, t2 \in Threads : tpc[t1] = "stopped" /\ tpc[t2] = "loop"

\* C6: a refresh invoked with an empty or missing refresh token fails (the
\* error is logged, nothing of the holder changes) without posting a request
\* to the token endpoint.
C6_NoRequestWithoutRefreshToken ==
    [][\A t \in Threads :
         (tpc[t] = "refresh" /\ tpc'[t] # "refresh" /\ tpc'[t] # "killed"
            /\ _refresh_token.kind \in {"empty", "none"})
         => /\ nreq' = nreq
            /\ log' = "No refresh token available"
            /\ tpc'[t] = "loop"
            /\ UNCHANGED hvars]_vars

C6_Witness ==
    /\ log = "No refresh token available" /\ nreq = 1
    /\ _refresh_token.kind = "none"

RedirectState(query) ==
    IF \E i \in DOMAIN query : query[i][1] = "state"
      THEN query[CHOOSE i \in DOMAIN query : query[i][1] = "state"][2]
      ELSE None

\* C8: no code-for-token exchange is performed after a redirect whose state
\* parameter differs from the state sent in the authorization request.
C8_StateVerified ==
    Len(exchanges) > 0 => RedirectState(final_query) = state

\* C9: when the wait for the redirect times out, get_tokens has returned None
\* after a single navigation and no request went to the token endpoint.
C9_TimeoutFailsOnce ==
    wait_outcome = "timeout"
        => /\ gpc = "returned" /\ result = None
           /\ navigations = 1
           /\ Len(exchanges) = 0
           /\ holder = FALSE

C9_Witness ==
    wait_outcome = "timeout" /\ mpc = "exited" /\ exit_code = 1

HasCodeParameter(query) == \E i \in DOMAIN query : query[i][1] = "code"

\* C10: when the final redirect URL carries no code parameter, get_tokens
\* returns None (it does not raise) and no request goes to the token endpoint.
C10_MissingCodeFails ==
    (wait_outcome = "redirected" /\ ~HasCodeParameter(final_query)
       /\ gpc # "parse")
        => /\ gpc = "returned" /\ result = None
           /\ Len(exchanges) = 0
           /\ holder = FALSE

C10_Witness ==
    /\ wait_outcome = "redirected" /\ gpc = "returned" /\ result = None
    /\ \E i \in DOMAIN final_query : final_query[i] = <<"error", "access_denied">>

\* C11: the code-for-token exchange is posted at most once per get_tokens
\* call, and when the token endpoint answers with a status other than 200
\* get_tokens returns None: nothing of the answer is in the returned value and
\* no token holder is built from it.
C11_SingleExchangeNoTokensOnFailure ==
    /\ Len(exchanges) <= 1
    /\ (response.status # 0 /\ response.status # 200)
         => /\ gpc = "returned" /\ result = None
            /\ response_dict = EmptyDict
            /\ holder = FALSE

C11_Witness ==
    /\ response.status = 400 /\ Truthy(response.body.access_token)
    /\ Len(exchanges) = 1
    /\ mpc = "exited" /\ exit_code = 1

\* The process has ended.
Finished == mpc \in {"exited", "crashed"}

\* The login failed: redirect timeout or error, browser error, missing
\* authorization code, or an exchange answered with a status other than 200.
LoginFailed ==
    \/ wait_outcome \in {"timeout", "error"}
    \/ result = "raised"
    \/ wait_outcome = "redirected" /\ gpc = "returned" /\ Len(exchanges) = 0
    \/ response.status # 0 /\ response.status # 200

Count(l, x) == Cardinality({i \in DOMAIN l : l[i] = x})

\* What the claim says of a scope string built from the list l.
ScopeStringAsClaimed(l, str) ==
    /\ Count(Split(str), Openid) = 1
    /\ Count(l, Openid) = 0 => str = <<"openid", " ">> \o Join(l)
    /\ Count(l, Openid) > 0 => str = Join(l)

\* C13: for every configured scope list, the scope string of the authorization
\* request and of the code exchange has openid as exactly one of its
\* space-separated scopes: "openid " is put before the joined list when the
\* list has no scope openid, the joined list is left unchanged otherwise.
C13_OpenidScopeOnce ==
    /\ gpc # "idle" => ScopeStringAsClaimed(scopes, params.scope)
    /\ \A i \in DOMAIN exchanges :
         ScopeStringAsClaimed(scopes, exchanges[i].scope)

\* C14: expires_in() is never negative, is 0 whenever the clock is at or past
\* expires_on, and does not increase when the clock advances while the expiry
\* of the holder stays the same.
C14_ExpiresInClamped ==
    /\ [](holder => expires_in >= 0 /\ (now >= _expires_on => expires_in = 0))
    /\ [][(holder /\ _expires_on' = _expires_on /\ now' >= now)
            => expires_in' <= expires_in]_vars

C14_Witness == holder /\ now > _expires_on /\ expires_in = 0

NotThreeParts(tok) == tok.kind \in {"tok", "empty"} /\ tok.nparts # 3

\* C16: decoding a token string that does not consist of exactly three
\* dot-separated parts fails with the decoder's error "Invalid JWT format",
\* the construction of a token holder from it fails too, and no token holder
\* with any filled field exists afterwards.
C16_MalformedTokenNoHolder ==
    /\ [](holder => ~NotThreeParts(response_dict.access_token))
    /\ [][(mpc = "get_tokens" /\ mpc' # mpc /\ result = "dict"
             /\ NotThreeParts(response_dict.access_token))
            => /\ parse_jwt(response_dict.access_token) = "Invalid JWT format"
               /\ log' = "Invalid JWT format"
               /\ mpc' = "crashed"
               /\ holder' = FALSE
               /\ UNCHANGED <<_access_token, _refresh_token, _expires_on>>]_vars

C16_Witness ==
    /\ mpc = "crashed" /\ log = "Invalid JWT format" /\ holder = FALSE
    /\ response_dict.access_token.nparts = 4
    /\ _expires_on = 0

\* A step in which refresher t posts a refresh request.
Posts(t) == tpc[t] = "refresh" /\ tpc'[t] # "refresh" /\ nreq' = nreq + 1

\* C17: the refresher of a holder (a single one is started) posts a refresh
\* request only when the access token the holder currently has is within 300
\* seconds of its expiry; after a successful refresh that returned a token
\* valid for longer, the refresher suspends instead of posting again.
C17_RefreshOnlyNearExpiry ==
    [][\A t \in Threads :
         (starts = 1 /\ Posts(t) /\ Truthy(_access_token))
         => _access_token.exp - now <= RefreshMargin]_vars

\* A step in which refresher t ends a refresh attempt without a 200 answer:
\* the refresh token is missing, the token endpoint answers another status,
\* or the request raises.
FailsWithoutAnswer(t) ==
    /\ tpc[t] = "refresh" /\ tpc'[t] \in {"loop", "stopped"}

\* C18: a refresh attempt that fails (empty refresh token, or an answer other
\* than 200) leaves the holder's access token, refresh token and expires_on
\* as they were: these fields change only in a step of a refresher that is
\* applying the body of a 200 answer.
C18_FailedRefreshChangesNothing ==
    [][/\ \A t \in Threads :
            FailsWithoutAnswer(t)
            => UNCHANGED <<_access_token, _refresh_token, _expires_on>>
       /\ (holder /\ <<_access_token, _refresh_token, _expires_on>>'
                       # <<_access_token, _refresh_token, _expires_on>>)
            => \E t \in Threads :
                 /\ tpc[t] \in {"write_at", "write_rt"} /\ tpc'[t] # tpc[t]
                 /\ new_tokens[t].access_token.gen >= 1]_vars

C18_Witness ==
    /\ refresh_outcome = "status" /\ log = "Failed to refresh token"
    /\ nreq = 1 /\ gen = 0
    /\ _access_token = response_dict.access_token

\* C19: a holder created with a non-empty access token and a non-empty refresh
\* token holds a non-empty access token and a non-empty refresh token whenever
\* no refresher is in the middle of applying an answer.
C19_TokensStayNonEmpty ==
    (holder /\ Truthy(response_dict.access_token)
       /\ Truthy(response_dict.refresh_token)
       /\ \A t \in Threads : tpc[t] \notin {"write_at", "write_rt"})
        => Truthy(_access_token) /\ Truthy(_refresh_token)

\* C20: the code_verifier sent in the code exchange belongs to the PKCE pair
\* whose code_challenge was sent in the authorization request of the same
\* get_tokens call, and the exchange carries the client_id, redirect_uri and
\* scope string of that request.
C20_ExchangeMatchesRequest ==
    \A i \in DOMAIN exchanges :
        /\ <<exchanges[i].code_verifier, params.code_challenge>> \in PkcePairs
        /\ exchanges[i].client_id = params.client_id
        /\ exchanges[i].redirect_uri = params.redirect_uri
        /\ exchanges[i].scope = params.scope

C20_Witness ==
    /\ Len(exchanges) = 1 /\ exchanges[1].code_verifier = "v2"
    /\ params.code_challenge = "h2"
    /\ Count(scopes, Openid) = 0 /\ exchanges[1].scope[1] = "openid"

====
